---- MODULE Spec2Model ----
(***************************************************************************)
(* A model of django_unicorn/views.py.                                     *)
(*                                                                         *)
(* Two state machines share this module.                                   *)
(*                                                                         *)
(*   Spec      the Request Coordinator: _handle_component_request and      *)
(*             _handle_component_requests run by concurrent callers on one *)
(*             cache key.  Every cache.get and cache.set of the drain is a *)
(*             step of its own; the get/append/set/len of a submit is one  *)
(*             step (the atomicity the design asks of the store).  The     *)
(*             Action Dispatcher pass is a step that begins and a step     *)
(*             that ends, recording the actions it applied.                *)
(*                                                                         *)
(*   FailSpec  the Request Coordinator again, for requests some of which    *)
(*             hold an action at which the dispatcher pass raises an error *)
(*             that handle_error catches.                                  *)
(*                                                                         *)
(*   DispSpec  the Action Dispatcher: one _process_component_request pass, *)
(*             action by action, over a small component, for requests that *)
(*             follow one another on the same cached instance.  The        *)
(*             component, its factory and cache, its setter, validate(),   *)
(*             the serializer and the call-method parsers live outside     *)
(*             views.py and are modelled by what the design says of them.  *)
(*             The component has no parent, and its attribute names are    *)
(*             not names of dict methods.                                  *)
(*                                                                         *)
(*   PathSpec  the Property Path Engine on its own: _set_property_value and *)
(*             _get_property_value called on a component, a property name, *)
(*             a value and a `data` dict drawn from small sets.            *)
(*                                                                         *)
(* The cache entry's expiry (UNICORN_REQUEST_TIMEOUT) is not modelled: no  *)
(* entry expires while a caller is at work.                                *)
(***************************************************************************)
EXTENDS Integers, Sequences, FiniteSets, TLC

\* ------------------------------------------------------------------ bounds

\* Concurrent callers of message() on one cache key.
NumCallers == 3
\* Client-assigned epochs are drawn from 1..MaxEpoch (not unique).
MaxEpoch == 2
\* Dispatcher passes started on the key, all callers together.
MaxPasses == 4
\* Requests dispatched one after the other on the cached component.
MaxRequests == 2
\* Actions in one request's action queue.
MaxActions == 2
\* Parts of a dotted property name handed to the path engine on its own.
MaxDepth == 3

Callers == 1..NumCallers
Epochs == 1..MaxEpoch

VARIABLES
    \* ---- Request Coordinator
    store,        \* cache[component_cache_key]: the pending queue (<<>> = absent)
    req,          \* req[p]: the ComponentRequest caller p posts
    pc,           \* pc[p]: where caller p is in the handlers
    sortedReqs,   \* component_requests after line 508
    first,        \* first_component_request
    local,        \* component_requests after lines 520 and 524
    foldSrc,      \* component_requests.copy() iterated by the fold loop
    merged,       \* merged_component_request
    jsonResult,   \* json_result
    stack,        \* json_result of the enclosing, suspended drains
    response,     \* body of the JsonResponse sent to caller p
    passes,       \* dispatcher passes started so far
    applied       \* actions applied by finished dispatcher passes, in order

coordVars == <<store, req, pc, sortedReqs, first, local, foldSrc, merged,
               jsonResult, stack, response, passes, applied>>

VARIABLES
    \* ---- Action Dispatcher
    inst,         \* the component instances: the cached one and the one $reset built
    cur,          \* the instance the local `component` is bound to
    defaultData,  \* the default value of _set_property_value's `data` parameter
    rows,         \* the persisted rows of the registered DbModel, by pk
    dbDefaults,   \* Meta.db_models[0].defaults
    dreq,         \* the ComponentRequest as posted: data and action_queue
    ddata,        \* component_request.data
    origData,     \* original_data
    shared,       \* top-level keys whose value is one object in both of them
    idx,          \* position of the next action of the queue
    isReset,      \* is_reset_called
    validateAll,  \* validate_all_fields
    returnData,   \* return_data
    dpc,          \* stage of the pass
    denv,         \* what the pass hands back to message()
    failedAt,     \* position of the action that raised (0: none)
    calls,        \* the calls the pass made into the component, in order
    reqNo         \* requests dispatched so far

dispVars == <<inst, cur, defaultData, rows, dbDefaults, dreq, ddata, origData,
              shared, idx, isReset, validateAll, returnData, dpc, denv,
              failedAt, calls, reqNo>>

VARIABLES
    \* ---- Property Path Engine
    pcomp,        \* the component's attributes
    pdata,        \* the `data` dict handed to _set_property_value
    pname,        \* property_name, as its parts
    pvalue,       \* property_value
    pstage,       \* what was called last on these arguments
    pout          \* what the last call raised and returned, the calls set made

pathVars == <<pcomp, pdata, pname, pvalue, pstage, pout>>

vars == <<coordVars, dispVars, pathVars>>

\* ------------------------------------------------------------ JSON values

\* A missing "return" key, the {} default of dict.get, a pass's return data
\* and the two-element list of line 560.
Absent == <<"absent">>
EmptyObj == <<"empty">>
Leaf(x) == <<"leaf", x>>
Pair(a, b) == <<"pair", a, b>>

NoRequest == [id |-> 0, epoch |-> 0, acts |-> <<>>]
NoResult == [kind |-> "none", id |-> 0, epoch |-> 0, original_epoch |-> 0,
             ret |-> Absent]

\* One action of an action queue: k-th action of caller r's request; call says
\* whether it is a callMethod (which sets the pass's return data), ok that
\* the dispatcher applies it without raising.
Act(r, k, call) == [r |-> r, k |-> k, call |-> call, ok |-> TRUE]

\* An action at which _process_component_request raises UnicornViewError or
\* AssertionError: an unknown action_type, a callMethod without a name, a
\* syncInput without a value, a dbInput whose model is not found.
FailingAct(r, k) == [r |-> r, k |-> k, call |-> FALSE, ok |-> FALSE]

\* The request caller p posts: a first action that may be a callMethod, then a
\* syncInput.
MakeRequest(p, e, call) ==
    [id |-> p, epoch |-> e, acts |-> <<Act(p, 1, call), Act(p, 2, FALSE)>>]

\* The request of caller p when its first action is one that fails.
MakeFailingRequest(p, e) ==
    [id |-> p, epoch |-> e, acts |-> <<FailingAct(p, 1), Act(p, 2, FALSE)>>]

\* ------------------------------------------------- Request Coordinator

\* sorted(component_requests, key=lambda cr: cr.epoch): Python's sort is
\* stable, so requests of equal epoch keep their arrival order.
RECURSIVE InsertByEpoch(_, _)
InsertByEpoch(s, r) ==
    IF s = <<>> THEN <<r>>
    ELSE IF Head(s).epoch <= r.epoch THEN <<Head(s)>> \o InsertByEpoch(Tail(s), r)
    ELSE <<r>> \o s

RECURSIVE SortByEpoch(_)
SortByEpoch(q) ==
    IF q = <<>> THEN <<>>
    ELSE InsertByEpoch(SortByEpoch(SubSeq(q, 1, Len(q) - 1)), q[Len(q)])

\* The return data a dispatcher pass over acts ends with: that of the last
\* callMethod action, none when the queue holds no callMethod.
RECURSIVE ReturnOf(_)
ReturnOf(acts) ==
    IF acts = <<>> THEN Absent
    ELSE LET a == acts[Len(acts)] IN
         IF a.call THEN Leaf(a.r * 10 + a.k)
         ELSE ReturnOf(SubSeq(acts, 1, Len(acts) - 1))

\* The dict _process_component_request returns for request r.
ProcessResult(r) ==
    [kind |-> "envelope", id |-> r.id, epoch |-> 0, original_epoch |-> 0,
     ret |-> ReturnOf(r.acts)]

\* QueuedAck with the epoch of the last entry, the request itself, given as
\* original_epoch.
QueuedAckOwnEpoch(r, q) ==
    [kind |-> "queued", id |-> 0, epoch |-> r.epoch,
     original_epoch |-> q[Len(q)].epoch, ret |-> Absent]

\* The dict of lines 469-474, for request r appended to queue q.
QueuedAck(r, q) ==
    [kind |-> "queued", id |-> 0, epoch |-> r.epoch,
     original_epoch |-> q[1].epoch, ret |-> Absent]

\* json_result.get("return", {})
GetReturn(j) == IF j.ret = Absent THEN EmptyObj ELSE j.ret

\* Lines 558-562: new_json_result["return"] = [original_return, new_return]
CombineReturn(orig, new) ==
    [new EXCEPT !.ret = Pair(GetReturn(orig), GetReturn(new))]

\* component_requests.append(component_request)
Enqueue(q, r) == Append(q, r)

\* len(component_requests) > 1
MustQueue(q) == Len(q) > 1

\* component_requests.pop(0)
PopProcessed(q, f) == Tail(q)

\* MergeInto putting the later request's actions in front.
MergeIntoInFront(m, r) ==
    IF m = NoRequest THEN r ELSE [m EXCEPT !.acts = r.acts \o @]

\* One iteration of the fold loop's merge (lines 530-539).
MergeInto(m, r) ==
    IF m = NoRequest THEN r ELSE [m EXCEPT !.acts = @ \o r.acts]

Fatal == [NoResult EXCEPT !.kind = "fatal"]

\* The JsonResponse({"error": str(e)}) of handle_error.
ErrorResponse == [NoResult EXCEPT !.kind = "error"]

\* The position of the first action of a queue at which the pass raises
\* (0: the pass goes through).
FirstFailing(acts) ==
    IF \A i \in 1..Len(acts) : acts[i].ok THEN 0
    ELSE CHOOSE i \in 1..Len(acts) :
            ~acts[i].ok /\ \A j \in 1..(i - 1) : acts[j].ok

\* The value a finished drain hands back through the enclosing drains, each of
\* which runs lines 558-562 on it (st: their json_result, innermost last).
RECURSIVE Unwind(_, _)
Unwind(st, r) ==
    IF st = <<>> THEN r
    ELSE Unwind(SubSeq(st, 1, Len(st) - 1), CombineReturn(st[Len(st)], r))

\* Caller p's handler returns r to message(); its locals are gone.
Finish(p, r, how) ==
    /\ pc' = [pc EXCEPT ![p] = how]
    /\ response' = [response EXCEPT ![p] = r]
    /\ stack' = [stack EXCEPT ![p] = <<>>]
    /\ sortedReqs' = [sortedReqs EXCEPT ![p] = <<>>]
    /\ first' = [first EXCEPT ![p] = NoRequest]
    /\ local' = [local EXCEPT ![p] = <<>>]
    /\ foldSrc' = [foldSrc EXCEPT ![p] = <<>>]
    /\ merged' = [merged EXCEPT ![p] = NoRequest]
    /\ jsonResult' = [jsonResult EXCEPT ![p] = NoResult]

\* An uncaught exception (IndexError, TypeError) unwinds every frame.
Crash(p) == Finish(p, Fatal, "crashed")

\* A UnicornViewError or AssertionError unwinds every frame as well, up to
\* handle_error around message(), which answers with the error.
Fail(p) == Finish(p, ErrorResponse, "failed")

CoordInit ==
    /\ store = <<>>
    /\ \E e \in [Callers -> Epochs] :
           req = [p \in Callers |-> MakeRequest(p, e[p], p % 2 = 1)]
    /\ pc = [p \in Callers |-> "idle"]
    /\ sortedReqs = [p \in Callers |-> <<>>]
    /\ first = [p \in Callers |-> NoRequest]
    /\ local = [p \in Callers |-> <<>>]
    /\ foldSrc = [p \in Callers |-> <<>>]
    /\ merged = [p \in Callers |-> NoRequest]
    /\ jsonResult = [p \in Callers |-> NoResult]
    /\ stack = [p \in Callers |-> <<>>]
    /\ response = [p \in Callers |-> NoResult]
    /\ passes = 0
    /\ applied = <<>>

\* message() -> _handle_component_request, lines 463-476.
Submit(p) ==
    /\ UNCHANGED <<dispVars, pathVars>>
    /\ pc[p] = "idle"
    /\ LET q == Enqueue(store, req[p]) IN
       /\ store' = q
       /\ IF MustQueue(q)
          THEN /\ response' = [response EXCEPT ![p] = QueuedAck(req[p], q)]
               /\ pc' = [pc EXCEPT ![p] = "done"]
          ELSE /\ pc' = [pc EXCEPT ![p] = "drain_read"]
               /\ UNCHANGED response
    /\ UNCHANGED <<req, sortedReqs, first, local, foldSrc, merged, jsonResult,
                   stack, passes, applied>>

\* _handle_component_requests, lines 507-516: read, sort, take the first and
\* enter the dispatcher pass.
DrainRead(p) ==
    /\ UNCHANGED <<dispVars, pathVars>>
    /\ pc[p] = "drain_read"
    /\ IF store = <<>>
       THEN /\ Crash(p)
            /\ UNCHANGED passes
       ELSE /\ passes < MaxPasses
            /\ passes' = passes + 1
            /\ sortedReqs' = [sortedReqs EXCEPT ![p] = SortByEpoch(store)]
            /\ first' = [first EXCEPT ![p] = SortByEpoch(store)[1]]
            /\ pc' = [pc EXCEPT ![p] = "in_pass"]
            /\ UNCHANGED <<response, stack, local, foldSrc, merged, jsonResult>>
    /\ UNCHANGED <<store, req, applied>>

\* Line 516 returns, the pass over first_component_request being finished, and
\* line 520 reads the queue again; or line 516 raises at an action, the
\* actions before it applied, and nothing of lines 520-564 is run.
EndPass(p) ==
    /\ UNCHANGED <<dispVars, pathVars>>
    /\ pc[p] = "in_pass"
    /\ IF FirstFailing(first[p].acts) = 0
       THEN /\ applied' = applied \o first[p].acts
            /\ jsonResult' = [jsonResult EXCEPT ![p] = ProcessResult(first[p])]
            /\ local' = [local EXCEPT ![p] = store]
            /\ pc' = [pc EXCEPT ![p] = "pop_write"]
            /\ UNCHANGED <<sortedReqs, first, foldSrc, merged, stack,
                           response>>
       ELSE /\ applied' = applied \o SubSeq(first[p].acts, 1,
                                            FirstFailing(first[p].acts) - 1)
            /\ Fail(p)
    /\ UNCHANGED <<store, req, passes>>

\* Lines 521-522.
PopWrite(p) ==
    /\ UNCHANGED <<dispVars, pathVars>>
    /\ pc[p] = "pop_write"
    /\ IF local[p] = <<>>
       THEN /\ Crash(p)
            /\ UNCHANGED store
       ELSE /\ local' = [local EXCEPT ![p] = PopProcessed(local[p], first[p])]
            /\ store' = PopProcessed(local[p], first[p])
            /\ pc' = [pc EXCEPT ![p] = "reread"]
            /\ sortedReqs' = [sortedReqs EXCEPT ![p] = <<>>]
            /\ first' = [first EXCEPT ![p] = NoRequest]
            /\ UNCHANGED <<response, stack, foldSrc, merged, jsonResult>>
    /\ UNCHANGED <<req, passes, applied>>

\* Lines 524-527 and 564 (and lines 558-562 of every enclosing drain).
Reread(p) ==
    /\ UNCHANGED <<dispVars, pathVars>>
    /\ pc[p] = "reread"
    /\ IF store = <<>>
       THEN Finish(p, Unwind(stack[p], jsonResult[p]), "done")
       ELSE /\ local' = [local EXCEPT ![p] = store]
            /\ foldSrc' = [foldSrc EXCEPT ![p] = store]
            /\ merged' = [merged EXCEPT ![p] = NoRequest]
            /\ pc' = [pc EXCEPT ![p] = "fold"]
            /\ UNCHANGED <<sortedReqs, first, jsonResult, stack, response>>
    /\ UNCHANGED <<store, req, passes, applied>>

\* One iteration of the loop of lines 529-546.
Fold(p) ==
    /\ UNCHANGED <<dispVars, pathVars>>
    /\ pc[p] = "fold"
    /\ LET i == Len(foldSrc[p]) - Len(local[p]) + 1 IN
       /\ merged' = [merged EXCEPT ![p] = MergeInto(@, foldSrc[p][i])]
       /\ local' = [local EXCEPT ![p] = Tail(@)]
       /\ store' = Tail(local[p])
       /\ pc' = [pc EXCEPT ![p] = IF i = Len(foldSrc[p]) THEN "resubmit"
                                  ELSE "fold"]
    /\ UNCHANGED <<req, sortedReqs, first, foldSrc, jsonResult, stack,
                   response, passes, applied>>

\* Line 554 -> lines 463-476 with the merged request; lines 558-562 when the
\* call returns the queued dict.
Resubmit(p) ==
    /\ UNCHANGED <<dispVars, pathVars>>
    /\ pc[p] = "resubmit"
    /\ LET q == Enqueue(store, merged[p]) IN
       /\ store' = q
       /\ IF MustQueue(q)
          THEN Finish(p, Unwind(Append(stack[p], jsonResult[p]),
                                QueuedAck(merged[p], q)), "done")
          ELSE /\ stack' = [stack EXCEPT ![p] = Append(@, jsonResult[p])]
               /\ pc' = [pc EXCEPT ![p] = "drain_read"]
               /\ foldSrc' = [foldSrc EXCEPT ![p] = <<>>]
               /\ merged' = [merged EXCEPT ![p] = NoRequest]
               /\ jsonResult' = [jsonResult EXCEPT ![p] = NoResult]
               /\ UNCHANGED <<sortedReqs, first, local, response>>
    /\ UNCHANGED <<req, passes, applied>>

CoordNext ==
    \E p \in Callers :
        \/ Submit(p)
        \/ DrainRead(p)
        \/ EndPass(p)
        \/ PopWrite(p)
        \/ Reread(p)
        \/ Fold(p)
        \/ Resubmit(p)

\* The coordinator before the first submit when the requests of some of the
\* callers hold an action that fails.
CoordInitFailing ==
    /\ store = <<>>
    /\ \E e \in [Callers -> Epochs], bad \in SUBSET Callers :
           req = [p \in Callers |->
                    IF p \in bad THEN MakeFailingRequest(p, e[p])
                    ELSE MakeRequest(p, e[p], p % 2 = 1)]
    /\ pc = [p \in Callers |-> "idle"]
    /\ sortedReqs = [p \in Callers |-> <<>>]
    /\ first = [p \in Callers |-> NoRequest]
    /\ local = [p \in Callers |-> <<>>]
    /\ foldSrc = [p \in Callers |-> <<>>]
    /\ merged = [p \in Callers |-> NoRequest]
    /\ jsonResult = [p \in Callers |-> NoResult]
    /\ stack = [p \in Callers |-> <<>>]
    /\ response = [p \in Callers |-> NoResult]
    /\ passes = 0
    /\ applied = <<>>

\* The coordinator at rest, for the runs of the dispatcher alone.
CoordIdle ==
    /\ store = <<>>
    /\ req = [p \in Callers |-> MakeRequest(p, 1, p % 2 = 1)]
    /\ pc = [p \in Callers |-> "idle"]
    /\ sortedReqs = [p \in Callers |-> <<>>]
    /\ first = [p \in Callers |-> NoRequest]
    /\ local = [p \in Callers |-> <<>>]
    /\ foldSrc = [p \in Callers |-> <<>>]
    /\ merged = [p \in Callers |-> NoRequest]
    /\ jsonResult = [p \in Callers |-> NoResult]
    /\ stack = [p \in Callers |-> <<>>]
    /\ response = [p \in Callers |-> NoResult]
    /\ passes = 0
    /\ applied = <<>>

\* ----------------------------------------------------------- Python values

\* Values are tagged: None, a number (True is 1, False is 0), a UnicornField
\* object with its attributes, a dict with its keys, the component itself.
PyNone == <<"none">>
Num(n) == <<"s", n>>
Obj(f) == <<"obj", f>>
Dict(f) == <<"dict", f>>
Comp(f) == <<"comp", f>>

\* The empty dict {} and d[k] = v.
EmptyMap == [x \in {} |-> PyNone]
Put(f, k, v) == [x \in DOMAIN f \cup {k} |-> IF x = k THEN v ELSE f[x]]

\* bool(v), and `not v` of line 347.
Truthy(v) ==
    CASE v[1] = "none" -> FALSE
      [] v[1] = "s" -> v[2] # 0
      [] v[1] = "dict" -> DOMAIN v[2] # {}
      [] OTHER -> TRUE
PyNot(v) == IF Truthy(v) THEN Num(0) ELSE Num(1)

\* A dotted property name is the sequence of its parts; NoName is a payload
\* without a "name" (None).
NoName == <<>>

\* Exceptions: the class and the message.
NoExc == <<>>
Exc(cls, msg) == <<cls, msg>>

\* A call made into the component: what was called, on which name, with
\* which value.
Call(what, name, value) == <<what, name, value>>

\* ------------------------------------------------------ Property Path Engine

\* hasattr(node, name), isinstance(node, dict), hasattr(node, "_set_property").
HasAttr(node, name) == node[1] \in {"comp", "obj"} /\ name \in DOMAIN node[2]
IsDict(node) == node[1] = "dict"
HasSetProperty(node) == node[1] = "comp"

\* The object reached from node along the attributes and keys p, and the
\* graph after the attribute or key k of that object is set to v.
RECURSIVE NodeAt(_, _)
NodeAt(node, p) ==
    IF p = <<>> THEN node ELSE NodeAt(node[2][Head(p)], Tail(p))

RECURSIVE WriteAt(_, _, _, _)
WriteAt(node, p, k, v) ==
    IF p = <<>> THEN <<node[1], Put(node[2], k, v)>>
    ELSE <<node[1], Put(node[2], Head(p),
                        WriteAt(node[2][Head(p)], Tail(p), k, v))>>

\* _get_property_value's loop from part i on: the value, None when the loop
\* runs out, or the KeyError of a dict without the key.
RECURSIVE GetWalk(_, _, _)
GetWalk(node, parts, i) ==
    IF i > Len(parts) THEN [exc |-> NoExc, val |-> PyNone]
    ELSE IF HasAttr(node, parts[i]) THEN
        IF i = Len(parts) THEN [exc |-> NoExc, val |-> node[2][parts[i]]]
        ELSE GetWalk(node[2][parts[i]], parts, i + 1)
    ELSE IF IsDict(node) THEN
        IF parts[i] \notin DOMAIN node[2]
        THEN [exc |-> Exc("KeyError", <<parts[i]>>), val |-> PyNone]
        ELSE IF i = Len(parts) THEN [exc |-> NoExc, val |-> node[2][parts[i]]]
        ELSE GetWalk(node[2][parts[i]], parts, i + 1)
    ELSE GetWalk(node, parts, i + 1)

GetPropertyValue(attrs, property_name) ==
    IF property_name = NoName
    THEN [exc |-> Exc("AssertionError", <<"property_name name is required">>),
          val |-> PyNone]
    ELSE GetWalk(Comp(attrs), property_name, 1)

\* data_or_dict is a dict reachable in `data` along the keys sc[2], a {} that
\* dict.get made up and nothing refers to, or a value that is no dict.
\* data_or_dict.get(part, {}):
ShadowGet(data, sc, part) ==
    CASE sc[1] = "path" ->
           LET d == NodeAt(Dict(data), sc[2])[2] IN
           IF part \notin DOMAIN d THEN [exc |-> NoExc, sc |-> <<"temp">>]
           ELSE IF d[part][1] = "dict"
                THEN [exc |-> NoExc, sc |-> <<"path", Append(sc[2], part)>>]
                ELSE [exc |-> NoExc, sc |-> <<"value">>]
      [] sc[1] = "temp" -> [exc |-> NoExc, sc |-> <<"temp">>]
      [] OTHER -> [exc |-> Exc("AttributeError", <<"get">>), sc |-> sc]

\* data_or_dict[part] = value:
ShadowAssign(data, sc, part, value) ==
    CASE sc[1] = "path" ->
           [exc |-> NoExc, data |-> WriteAt(Dict(data), sc[2], part, value)[2]]
      [] sc[1] = "temp" -> [exc |-> NoExc, data |-> data]
      [] OTHER -> [exc |-> Exc("TypeError", <<"item assignment">>),
                   data |-> data]

\* The component under dispatch: its class attributes.  flag and count are
\* plain fields, author is a UnicornField, opts is a dict.
DefaultAttrs ==
    [flag |-> Num(1), count |-> Num(1),
     author |-> Obj([active |-> Num(1)]),
     opts |-> Dict([dark |-> Num(1)])]

\* The dotted names for which the component defines updating_<name> and
\* updated_<name> (here updating_author_active, updated_author_active,
\* updating_opts_dark and updated_opts_dark).
SpecificHooks == {<<"author", "active">>, <<"opts", "dark">>}

\* The methods the component exposes, and the fields its form validates.
Methods == {"increment"}
FormFields == {"count"}

\* component._set_property(name, value): the component's own setter.
SetProperty(root, name, value) ==
    [root |-> WriteAt(root, <<>>, name, value),
     log |-> <<Call("_set_property", <<name>>, value)>>]

\* Lines 108-123 were the last part always set on the component itself.
TerminalAttrWriteOnComponent(root, p, parts, value) ==
    SetProperty(root, parts[Len(parts)], value)

\* The terminal write of lines 108-123 on the object at p, with the calls
\* it makes; the setattr of line 121 is one of them.
TerminalAttrWrite(root, p, parts, value) ==
    IF HasSetProperty(NodeAt(root, p))
    THEN SetProperty(root, parts[Len(parts)], value)
    ELSE [root |-> WriteAt(root, p, parts[Len(parts)], value),
          log |-> IF parts \in SpecificHooks
                  THEN <<Call("updating_", parts, value),
                         Call("setattr", Append(p, parts[Len(parts)]), value),
                         Call("updated_", parts, value)>>
                  ELSE <<Call("setattr", Append(p, parts[Len(parts)]),
                              value)>>]

\* _set_property_value's loop from part i on; p is where component_or_field
\* is in the component graph and sc where data_or_dict is in `data`.
SetResult(root, data, log, exc) ==
    [root |-> root, data |-> data, log |-> log, exc |-> exc]

RECURSIVE SetWalk(_, _, _, _, _, _, _)

\* Lines 127-128 and 134-135: on to the next part, unless data_or_dict has
\* no get.
SetDescend(root, p, data, g, parts, i, value) ==
    IF g.exc # NoExc THEN SetResult(root, data, <<>>, g.exc)
    ELSE SetWalk(root, Append(p, parts[i]), data, g.sc, parts, i + 1, value)

\* Lines 107-125: the terminal write w on an object, mirrored into `data`
\* by a.
SetAttrTerminal(w, a) == SetResult(w.root, a.data, w.log, a.exc)

\* One round of the loop, component_or_field being node.
SetStep(root, p, data, sc, parts, i, value, node) ==
    IF HasAttr(node, parts[i]) THEN
        IF i = Len(parts)
        THEN SetAttrTerminal(TerminalAttrWrite(root, p, parts, value),
                             ShadowAssign(data, sc, parts[i], value))
        ELSE SetDescend(root, p, data, ShadowGet(data, sc, parts[i]), parts,
                        i, value)
    ELSE IF IsDict(node) THEN
        IF i = Len(parts)
        THEN SetAttrTerminal([root |-> WriteAt(root, p, parts[i], value),
                              log |-> <<Call("setitem", Append(p, parts[i]),
                                             value)>>],
                             ShadowAssign(data, sc, parts[i], value))
        ELSE IF parts[i] \notin DOMAIN node[2]
        THEN SetResult(root, data, <<>>, Exc("KeyError", <<parts[i]>>))
        ELSE SetDescend(root, p, data, ShadowGet(data, sc, parts[i]), parts,
                        i, value)
    ELSE SetWalk(root, p, data, sc, parts, i + 1, value)

SetWalk(root, p, data, sc, parts, i, value) ==
    IF i > Len(parts) THEN SetResult(root, data, <<>>, NoExc)
    ELSE SetStep(root, p, data, sc, parts, i, value, NodeAt(root, p))

\* Lines 86 and 137 around the loop's outcome r: updating() before it, and
\* updated() after it unless it raised.
WithGenericHooks(r, property_name, property_value) ==
    [attrs |-> r.root[2], data |-> r.data,
     log |-> <<Call("updating", property_name, property_value)>>
             \o r.log
             \o (IF r.exc = NoExc
                 THEN <<Call("updated", property_name, property_value)>>
                 ELSE <<>>),
     exc |-> r.exc]

\* _set_property_value(component, property_name, property_value, data): the
\* component's attributes and `data` afterwards, the calls made, and the
\* exception raised, if any.
SetPropertyValue(attrs, property_name, property_value, data) ==
    IF property_name = NoName
    THEN [attrs |-> attrs, data |-> data, log |-> <<>>,
          exc |-> Exc("AssertionError", <<"Property name is required">>)]
    ELSE IF property_value = PyNone
    THEN [attrs |-> attrs, data |-> data, log |-> <<>>,
          exc |-> Exc("AssertionError", <<"Property value is required">>)]
    ELSE WithGenericHooks(SetWalk(Comp(attrs), <<>>, data, <<"path", <<>>>>,
                                  property_name, 1, property_value),
                          property_name, property_value)

\* _set_property_from_data(component_or_field, name, value), where
\* component_or_field is the object at p.
HydrateResult(root, log, exc) == [root |-> root, log |-> log, exc |-> exc]

RECURSIVE SetPropertyFromData(_, _, _, _)
RECURSIVE SetFieldsFromData(_, _, _, _)

\* Line 63, w being what component._set_property did.
AfterSetProperty(w) == HydrateResult(w.root, w.log, NoExc)

\* A UnicornField without a name attribute has no field.name to pass on at
\* line 59.
SetPropertyFromData(root, p, name, value) ==
    IF ~HasAttr(NodeAt(root, p), name)
    THEN HydrateResult(root, <<>>, NoExc)
    ELSE IF NodeAt(root, Append(p, name))[1] = "obj" THEN
        IF value[1] = "dict"
        THEN SetFieldsFromData(root, Append(p, name), value[2],
                               DOMAIN value[2])
        ELSE IF ~HasAttr(NodeAt(root, Append(p, name)), "name")
        THEN HydrateResult(root, <<>>, Exc("AttributeError", <<"name">>))
        ELSE HydrateResult(root, <<>>, NoExc)
    ELSE IF HasSetProperty(NodeAt(root, p))
    THEN AfterSetProperty(SetProperty(root, name, value))
    ELSE HydrateResult(WriteAt(root, p, name, value), <<>>, NoExc)

\* r, then rest.
HydrateThen(r, rest) == HydrateResult(rest.root, r.log \o rest.log, rest.exc)

\* The loop of lines 55-57 (and of lines 233-234 when p is the component)
\* over the keys not yet visited, r being what the first of them did.
SetRemainingFields(r, p, value, keys) ==
    IF r.exc # NoExc THEN r
    ELSE HydrateThen(r, SetFieldsFromData(r.root, p, value, keys))

FirstKey(keys) == CHOOSE k \in keys : TRUE

SetFieldsFromData(root, p, value, keys) ==
    IF keys = {} THEN HydrateResult(root, <<>>, NoExc)
    ELSE SetRemainingFields(
             SetPropertyFromData(root, p, FirstKey(keys),
                                 value[FirstKey(keys)]),
             p, value, keys \ {FirstKey(keys)})

\* ------------------------------------------- the component's collaborators

\* A component instance: its public attributes and its errors (the names of
\* the fields with a validation error).
NewComponent == [attrs |-> DefaultAttrs, errors |-> {}]

\* component.get_frontend_context_variables(), loaded again: the public
\* attributes as JSON, a field object as the dict of its attributes.
RECURSIVE ToData(_)
ToData(v) ==
    IF v[1] \in {"obj", "dict"}
    THEN Dict([k \in DOMAIN v[2] |-> ToData(v[2][k])])
    ELSE v
FrontendContextVariables(attrs) == [k \in DOMAIN attrs |-> ToData(attrs[k])]

\* The fields the component's form rejects: count must be a number other
\* than 0.
FormErrors(attrs) ==
    {f \in FormFields : f \notin DOMAIN attrs \/ attrs[f][1] # "s"
                        \/ attrs[f] = Num(0)}

\* component.validate(model_names): errors recorded earlier stay while the
\* form still rejects the field; the rejected fields among model_names (all
\* of them when model_names is None) are recorded.
Validate(c, model_names, all) ==
    [c EXCEPT !.errors =
        {k \in c.errors : k \in FormErrors(c.attrs)}
        \cup {k \in FormErrors(c.attrs) : all \/ k \in model_names}]

\* The increment method: count += 1, returning the new count.
CallIncrement(attrs) ==
    IF attrs.count[1] = "s"
    THEN [attrs |-> [attrs EXCEPT !.count = Num(attrs.count[2] + 1)],
          value |-> Num(attrs.count[2] + 1), exc |-> NoExc]
    ELSE [attrs |-> attrs, value |-> PyNone,
          exc |-> Exc("TypeError", <<"+=">>)]

\* _call_method_name were it to look the method up without the hasattr
\* test of line 182.
CallMethodNameUnguarded(attrs, method_name, params) ==
    IF method_name \in Methods THEN CallIncrement(attrs)
    ELSE [attrs |-> attrs, value |-> PyNone,
          exc |-> Exc("AttributeError", <<method_name>>)]

\* _call_method_name(component, method_name, params).
CallMethodName(attrs, method_name, params) ==
    IF method_name \in Methods THEN CallIncrement(attrs)
    ELSE IF method_name \in DOMAIN attrs
    THEN [attrs |-> attrs, value |-> PyNone,
          exc |-> Exc("TypeError", <<"not callable">>)]
    ELSE [attrs |-> attrs, value |-> PyNone, exc |-> NoExc]

\* Meta.db_models: one registered DbModel; its defaults are dbDefaults.
DbModels == <<[name |-> "book", model_class |-> "Book"]>>
InitialDbDefaults == [title |-> Num(1)]

\* dict.update: f with the entries of g.
Merge(f, g) ==
    [k \in DOMAIN f \cup DOMAIN g |-> IF k \in DOMAIN g THEN g[k] ELSE f[k]]

\* Return(method_name, params) and its value.
NoReturn == [method |-> <<>>, params |-> <<>>, value |-> PyNone, set |-> FALSE]
Return(method_name, params) ==
    [method |-> method_name, params |-> params, value |-> PyNone,
     set |-> TRUE]

\* ------------------------------------------------------------ the requests

Sync(name, value) == [type |-> "syncInput", name |-> name, value |-> value]
\* A callMethod payload with what the parsers make of its name: the method
\* name and params of parse_call_method_name, and the (name, value) of
\* parse_kwarg when the name is an assignment.
CallMethod(name, params) ==
    [type |-> "callMethod", name |-> name, params |-> params,
     setter |-> <<>>]
Setter(name, value) ==
    [type |-> "callMethod", name |-> "=", params |-> <<>>,
     setter |-> <<name, value>>]
DbInput(model, name, pk, fields) ==
    [type |-> "dbInput", model |-> model, name |-> name, pk |-> pk,
     fields |-> fields]
Bogus == [type |-> "bogus"]

Actions ==
    { Sync(<<"count">>, Num(0)), Sync(<<"count">>, Num(2)),
      Sync(<<"author", "active">>, Num(0)), Sync(<<"opts", "dark">>, Num(0)),
      Sync(<<"flag">>, PyNone), Sync(NoName, Num(1)),
      CallMethod("$refresh", <<>>), CallMethod("$reset", <<>>),
      CallMethod("$validate", <<>>),
      CallMethod("$toggle", << <<"flag">> >>),
      CallMethod("$toggle", << <<"author", "active">> >>),
      CallMethod("$toggle", << <<"opts", "dark">> >>),
      CallMethod("$toggle", << <<"author">> >>),
      CallMethod("$toggle", << <<"author", "active">>, <<"flag">> >>),
      CallMethod("increment", <<>>), CallMethod("missing", <<>>),
      CallMethod("", <<>>),
      Setter(<<"count">>, Num(0)), Setter(<<"count">>, PyNone),
      DbInput("", "book", 0, [title |-> Num(2)]),
      DbInput("", "book", 1, [note |-> Num(2)]),
      DbInput("author", "nope", 0, EmptyMap),
      DbInput("", "book", 0, EmptyMap),
      Bogus }

Queues == UNION {[1..n -> Actions] : n \in 0..MaxActions}

\* The data a request posts: nothing, a snapshot of the component as it is
\* built, a snapshot whose author is no dict.
DataChoices ==
    { EmptyMap,
      [count |-> Num(1), author |-> Dict([active |-> Num(1)]),
       opts |-> Dict([dark |-> Num(1)])],
      [author |-> Num(1)] }

\* handle_error on what _process_component_request raised.
NoEnv == [kind |-> "none", error |-> <<>>, data |-> EmptyMap, errors |-> {},
          ret |-> NoReturn]
HandleError(exc) ==
    IF exc[1] \in {"UnicornViewError", "AssertionError"}
    THEN [NoEnv EXCEPT !.kind = "error", !.error = exc[2]]
    ELSE [NoEnv EXCEPT !.kind = "fatal"]

\* -------------------------------------------------------- Action Dispatcher

DispIdle ==
    /\ inst = [cached |-> NewComponent, fresh |-> NewComponent]
    /\ cur = "cached"
    /\ defaultData = EmptyMap
    /\ rows = EmptyMap
    /\ dbDefaults = InitialDbDefaults
    /\ dreq = [data |-> EmptyMap, action_queue |-> <<>>]
    /\ ddata = EmptyMap
    /\ origData = EmptyMap
    /\ shared = {}
    /\ idx = 1
    /\ isReset = FALSE
    /\ validateAll = FALSE
    /\ returnData = NoReturn
    /\ dpc = "idle"
    /\ denv = NoEnv
    /\ failedAt = 0
    /\ calls = <<>>
    /\ reqNo = 0

\* The pass ends with the exception exc, raised at position i of the queue
\* (0: before the first action).
Raise(exc, i) ==
    /\ dpc' = "done"
    /\ denv' = HandleError(exc)
    /\ failedAt' = i

\* The loop of line 240 were it to step over the action that follows.
NextActionSkipsOne ==
    /\ idx' = idx + 2
    /\ UNCHANGED <<dpc, denv, failedAt>>

\* The action at position idx went through.
NextAction ==
    /\ idx' = idx + 1
    /\ UNCHANGED <<dpc, denv, failedAt>>

\* Lines 222-238: the cached instance is fetched, original_data is copied,
\* the posted data is set on the component (h is what that did) and
\* hydrate() is called.
Hydrated(h) ==
    /\ inst' = [cached |-> [inst.cached EXCEPT !.attrs = h.root[2]],
                fresh |-> NewComponent]
    /\ calls' = <<Call("create", <<>>, Num(1))>> \o h.log
                \o (IF h.exc = NoExc
                    THEN <<Call("hydrate", <<>>, PyNone)>>
                    ELSE <<>>)
    /\ IF h.exc = NoExc
       THEN dpc' = "applying" /\ denv' = NoEnv /\ failedAt' = 0
       ELSE Raise(h.exc, 0)

StartRequest ==
    /\ dpc \in {"idle", "done"}
    /\ reqNo < MaxRequests
    /\ \E data \in DataChoices, queue \in Queues :
        /\ dreq' = [data |-> data, action_queue |-> queue]
        /\ ddata' = data
        /\ origData' = data
        /\ shared' = {k \in DOMAIN data : data[k][1] = "dict"}
        /\ Hydrated(SetFieldsFromData(Comp(inst.cached.attrs), <<>>, data,
                                      DOMAIN data))
    /\ cur' = "cached"
    /\ idx' = 1
    /\ isReset' = FALSE
    /\ validateAll' = FALSE
    /\ returnData' = NoReturn
    /\ reqNo' = reqNo + 1
    /\ UNCHANGED <<defaultData, rows, dbDefaults>>
    /\ UNCHANGED <<coordVars, pathVars>>

Applying == dpc = "applying" /\ idx <= Len(dreq.action_queue)
action == dreq.action_queue[idx]

\* The action at position idx is over without an exception, or with exc.
AfterAction(exc) ==
    IF exc = NoExc THEN NextAction ELSE Raise(exc, idx) /\ idx' = idx

\* Lines 244-249, r being what _set_property_value did.  A dict that
\* original_data shares with component_request.data changes with it.
SyncInputDone(r) ==
    /\ inst' = [inst EXCEPT ![cur].attrs = r.attrs]
    /\ ddata' = r.data
    /\ shared' = {k \in shared : r.data[k][1] = "dict"}
    /\ origData' = [k \in DOMAIN origData |->
                      IF k \in shared /\ r.data[k][1] = "dict"
                      THEN r.data[k] ELSE origData[k]]
    /\ calls' = calls \o r.log
    /\ AfterAction(r.exc)

ApplySyncInput ==
    /\ Applying
    /\ action.type = "syncInput"
    /\ SyncInputDone(SetPropertyValue(inst[cur].attrs, action.name,
                                      action.value, ddata))
    /\ UNCHANGED <<cur, defaultData, rows, dbDefaults, dreq, isReset,
                   validateAll, returnData, reqNo>>
    /\ UNCHANGED <<coordVars, pathVars>>

\* The first position of a list that satisfies a test (0: none), as a loop
\* that breaks at the first match finds it.
FirstIndex(T) == IF T = {} THEN 0 ELSE CHOOSE i \in T : \A j \in T : i <= j

\* model_class.model of line 263 ("": there is none).
ModelOf(v) == IF HasAttr(v, "model") THEN v[2]["model"] ELSE ""

\* Lines 295-300 written as an update that inserts the row when no row has
\* the key.
UpdateOrSaveUpsert(table, pk, fields_to_update) ==
    IF pk # 0 /\ pk \in DOMAIN table
    THEN [table EXCEPT ![pk] = Merge(table[pk], fields_to_update)]
    ELSE Put(table, Cardinality(DOMAIN table) + 1, fields_to_update)

\* Lines 295-300 on the table of the model: filter(pk=pk).update(...) changes
\* the row that has the key, if there is one; save() of a new instance adds
\* a row under the next key.
UpdateOrSave(table, pk, fields_to_update) ==
    IF pk # 0
    THEN [k \in DOMAIN table |->
            IF k = pk THEN Merge(table[k], fields_to_update) ELSE table[k]]
    ELSE Put(table, Cardinality(DOMAIN table) + 1, fields_to_update)

\* Lines 250-300.
ApplyDbInput ==
    /\ Applying
    /\ action.type = "dbInput"
    /\ LET attrs == inst[cur].attrs
           model == action.model
           db_model_name == action.name
           pk == action.pk
           fields == action.fields
           noAttr == model # "" /\ model \notin DOMAIN attrs
           fieldModel == IF model # "" /\ ~noAttr THEN ModelOf(attrs[model])
                         ELSE ""
           byModel == IF fieldModel = "" THEN 0
                      ELSE FirstIndex({i \in 1..Len(DbModels) :
                                 DbModels[i].model_class = fieldModel})
           byName == IF fieldModel = "" /\ db_model_name # ""
                     THEN FirstIndex({i \in 1..Len(DbModels) :
                                 DbModels[i].name = db_model_name})
                     ELSE 0
           DbModel == IF fieldModel # "" THEN fieldModel
                      ELSE IF byName # 0 THEN DbModels[byName].model_class
                      ELSE ""
           registered == byModel # 0 \/ byName # 0
           db_defaults == IF registered THEN dbDefaults ELSE EmptyMap
           fields_to_update == Merge(db_defaults, fields)
       IN  IF noAttr
           THEN /\ Raise(Exc("AttributeError", <<model>>), idx)
                /\ UNCHANGED <<idx, rows, dbDefaults>>
           ELSE IF DbModel = ""
           THEN /\ Raise(Exc("AssertionError",
                             <<"Missing model", model, db_model_name>>), idx)
                /\ UNCHANGED <<idx, rows, dbDefaults>>
           ELSE IF DOMAIN fields = {}
           THEN NextAction /\ UNCHANGED <<rows, dbDefaults>>
           ELSE /\ NextAction
                /\ dbDefaults' = IF registered THEN fields_to_update
                                 ELSE dbDefaults
                /\ rows' = UpdateOrSave(rows, pk, fields_to_update)
    /\ UNCHANGED <<inst, cur, defaultData, dreq, ddata, origData, shared,
                   isReset, validateAll, returnData, calls, reqNo>>
    /\ UNCHANGED <<coordVars, pathVars>>

\* Lines 345-349 from the i-th param on; data is the default `data` of
\* _set_property_value.
ToggleResult(attrs, data, log, exc) ==
    [attrs |-> attrs, data |-> data, log |-> log, exc |-> exc]

RECURSIVE ToggleAll(_, _, _, _)

\* s is what _set_property_value did for the i-th param.
ToggleThen(s, rest) == [rest EXCEPT !.log = s.log \o rest.log]
ToggleNext(s, params, i) ==
    IF s.exc # NoExc THEN s
    ELSE ToggleThen(s, ToggleAll(s.attrs, s.data, params, i + 1))

\* g is what _get_property_value gave for the i-th param.
ToggleOne(g, attrs, data, params, i) ==
    IF g.exc # NoExc THEN ToggleResult(attrs, data, <<>>, g.exc)
    ELSE ToggleNext(SetPropertyValue(attrs, params[i], PyNot(g.val), data),
                    params, i)

ToggleAll(attrs, data, params, i) ==
    IF i > Len(params) THEN ToggleResult(attrs, data, <<>>, NoExc)
    ELSE ToggleOne(GetPropertyValue(attrs, params[i]), attrs, data, params, i)

\* What lines 302-358 do with the action: the instances, the binding of
\* `component`, the default `data`, the flags, return_data, the calls made
\* and the exception raised, if any.  Nothing done yet:
Untouched ==
    [inst |-> inst, cur |-> cur, defaultData |-> defaultData,
     isReset |-> isReset, validateAll |-> validateAll,
     returnData |-> Return(action.name, action.params),
     log |-> <<>>, exc |-> NoExc]

\* Lines 317-322 were the assignment taken for a method to call.
SetterOutcomeAsCall(r) ==
    [Untouched EXCEPT
        !.inst = [inst EXCEPT ![cur].attrs = r.attrs],
        !.defaultData = r.data,
        !.log = <<Call("calling", <<action.name>>, PyNone)>> \o r.log
                \o <<Call("called", <<action.name>>, PyNone)>>,
        !.exc = r.exc]

\* Lines 317-322, r being what _set_property_value did.
SetterOutcome(r) ==
    [Untouched EXCEPT
        !.inst = [inst EXCEPT ![cur].attrs = r.attrs],
        !.defaultData = r.data, !.log = r.log, !.exc = r.exc,
        !.returnData = IF r.exc = NoExc
                       THEN Return(action.setter[1], <<action.setter[2]>>)
                       ELSE @]

\* Lines 344-349, r being what the loop did.
ToggleOutcome(r) ==
    [Untouched EXCEPT
        !.inst = [inst EXCEPT ![cur].attrs = r.attrs],
        !.defaultData = r.data, !.log = r.log, !.exc = r.exc]

\* Lines 354-358, r being what _call_method_name did.
MethodOutcome(r) ==
    [Untouched EXCEPT
        !.inst = [inst EXCEPT ![cur].attrs = r.attrs],
        !.log = <<Call("calling", <<action.name>>, PyNone)>>
                \o (IF r.exc = NoExc
                    THEN <<Call("called", <<action.name>>, PyNone)>>
                    ELSE <<>>),
        !.returnData = [@ EXCEPT !.value = r.value],
        !.exc = r.exc]

CallMethodOutcome ==
    IF action.name = ""
    THEN [Untouched EXCEPT
            !.returnData = returnData,
            !.exc = Exc("AssertionError",
                        <<"Missing 'name' key for callMethod">>)]
    ELSE IF action.setter # <<>>
    THEN SetterOutcome(SetPropertyValue(inst[cur].attrs, action.setter[1],
                                        action.setter[2], defaultData))
    ELSE IF action.name = "$refresh"
    THEN [Untouched EXCEPT !.cur = "cached",
            !.log = <<Call("create", <<>>, Num(1))>>]
    ELSE IF action.name = "$reset"
    THEN [Untouched EXCEPT
            !.inst = [inst EXCEPT !.fresh = NewComponent],
            !.cur = "fresh", !.isReset = TRUE,
            !.log = <<Call("create", <<>>, Num(0))>>]
    ELSE IF action.name = "$toggle"
    THEN ToggleOutcome(ToggleAll(inst[cur].attrs, defaultData,
                                 action.params, 1))
    ELSE IF action.name = "$validate"
    THEN [Untouched EXCEPT !.validateAll = TRUE]
    ELSE MethodOutcome(CallMethodName(inst[cur].attrs, action.name,
                                      action.params))

\* Lines 301-358.
CallMethodDone(r) ==
    /\ inst' = r.inst
    /\ cur' = r.cur
    /\ defaultData' = r.defaultData
    /\ isReset' = r.isReset
    /\ validateAll' = r.validateAll
    /\ returnData' = r.returnData
    /\ calls' = calls \o r.log
    /\ AfterAction(r.exc)

ApplyCallMethod ==
    /\ Applying
    /\ action.type = "callMethod"
    /\ CallMethodDone(CallMethodOutcome)
    /\ UNCHANGED <<rows, dbDefaults, dreq, ddata, origData, shared, reqNo>>
    /\ UNCHANGED <<coordVars, pathVars>>

\* Lines 359-360: the exception for an action_type that is none of the
\* three.
UnknownActionTypeIgnored(action_type) == NoExc

UnknownActionType(action_type) ==
    Exc("UnicornViewError", <<"Unknown action_type", action_type>>)

ApplyUnknown ==
    /\ Applying
    /\ action.type \notin {"syncInput", "dbInput", "callMethod"}
    /\ AfterAction(UnknownActionType(action.type))
    /\ UNCHANGED <<inst, cur, defaultData, rows, dbDefaults, dreq, ddata,
                   origData, shared, isReset, validateAll, returnData, calls,
                   reqNo>>
    /\ UNCHANGED <<coordVars, pathVars>>

\* original_data's keys whose value differs from the new snapshot's
\* (lines 369-373).
ModelNamesToValidate(orig, data) ==
    {k \in DOMAIN orig :
        IF k \in DOMAIN data THEN orig[k] # data[k] ELSE orig[k] # PyNone}

\* Lines 363-375: the snapshot is derived again; unless $reset was called,
\* the component validates, all fields (model_names None) or the
\* model_names_to_validate.
PostProcess ==
    /\ dpc = "applying"
    /\ idx > Len(dreq.action_queue)
    /\ LET data == FrontendContextVariables(inst[cur].attrs) IN
       /\ ddata' = data
       /\ IF isReset
          THEN UNCHANGED <<inst, calls>>
          ELSE /\ inst' = [inst EXCEPT ![cur] =
                             Validate(@, ModelNamesToValidate(origData, data),
                                      validateAll)]
               /\ calls' = Append(calls,
                     Call("validate", <<>>,
                          IF validateAll THEN PyNone
                          ELSE ModelNamesToValidate(origData, data)))
    /\ dpc' = "render"
    /\ UNCHANGED <<cur, defaultData, rows, dbDefaults, dreq, origData, shared,
                   idx, isReset, validateAll, returnData, denv, failedAt,
                   reqNo>>
    /\ UNCHANGED <<coordVars, pathVars>>

\* Lines 377-433: the component renders and the result is put together.
Render ==
    /\ dpc = "render"
    /\ calls' = Append(calls, Call("render", <<>>, PyNone))
    /\ denv' = [kind |-> "envelope", error |-> <<>>, data |-> ddata,
                errors |-> inst[cur].errors, ret |-> returnData]
    /\ dpc' = "done"
    /\ UNCHANGED <<inst, cur, defaultData, rows, dbDefaults, dreq, ddata,
                   origData, shared, idx, isReset, validateAll, returnData,
                   failedAt, reqNo>>
    /\ UNCHANGED <<coordVars, pathVars>>

\* ------------------------------------------- Property Path Engine on its own

\* The parts a property name is made of: the names of the component graph,
\* and one that names nothing.
PathNames == {"flag", "author", "active", "opts", "dark", "nope"}
PropertyNames == UNION {[1..n -> PathNames] : n \in 1..MaxDepth}
PropertyValues == {PyNone, Num(0), Num(2)}

\* A component whose field holds a dict and whose dict holds a dict.
DeepAttrs ==
    [flag |-> Num(1),
     author |-> Obj([active |-> Num(1), opts |-> Dict([dark |-> Num(1)])]),
     opts |-> Dict([author |-> Dict([active |-> Num(1)])])]
Components == {DefaultAttrs, DeepAttrs}

\* The `data` of a call: an empty dict, the component's snapshot, and a
\* dict whose author is no dict.
DataOf(attrs) ==
    {EmptyMap, FrontendContextVariables(attrs), [author |-> Num(1)]}

NoOut == [exc |-> NoExc, val |-> PyNone, log |-> <<>>]

PathIdle ==
    /\ pcomp = DefaultAttrs
    /\ pdata = EmptyMap
    /\ pname = NoName
    /\ pvalue = PyNone
    /\ pstage = "idle"
    /\ pout = NoOut

\* The arguments of the calls: a component, a `data` dict, a property name
\* and a value.
PathArguments ==
    /\ pcomp \in Components
    /\ pdata \in DataOf(pcomp)
    /\ pname \in PropertyNames \cup {NoName}
    /\ pvalue \in PropertyValues
    /\ pstage = "ready"
    /\ pout = NoOut

\* _set_property_value(component, property_name, property_value, data) has
\* done r.
PathSetDone(r) ==
    /\ pcomp' = r.attrs
    /\ pdata' = r.data
    /\ pout' = [exc |-> r.exc, val |-> PyNone, log |-> r.log]

PathSet ==
    /\ pstage = "ready"
    /\ PathSetDone(SetPropertyValue(pcomp, pname, pvalue, pdata))
    /\ pstage' = "set"
    /\ UNCHANGED <<pname, pvalue>>
    /\ UNCHANGED <<coordVars, dispVars>>

\* _get_property_value(component, property_name) has done g.
PathGetDone(g) == pout' = [pout EXCEPT !.exc = g.exc, !.val = g.val]

PathGet ==
    /\ pstage \in {"ready", "set"}
    /\ PathGetDone(GetPropertyValue(pcomp, pname))
    /\ pstage' = "got"
    /\ UNCHANGED <<pcomp, pdata, pname, pvalue>>
    /\ UNCHANGED <<coordVars, dispVars>>

PathNext == PathSet \/ PathGet

DispNext ==
    \/ StartRequest
    \/ ApplySyncInput
    \/ ApplyDbInput
    \/ ApplyCallMethod
    \/ ApplyUnknown
    \/ PostProcess
    \/ Render

Init == CoordInit /\ DispIdle /\ PathIdle

Next == CoordNext

Spec == Init /\ [][Next]_vars

FailInit == CoordInitFailing /\ DispIdle /\ PathIdle

FailSpec == FailInit /\ [][Next]_vars

DispInit == CoordIdle /\ DispIdle /\ PathIdle

DispSpec == DispInit /\ [][DispNext]_vars

PathInit == CoordIdle /\ DispIdle /\ PathArguments

PathSpec == PathInit /\ [][PathNext]_vars

\* ------------------------------------------- Request Coordinator: claims

\* Caller p's own submit was answered with the queued dict (which carries no
\* "return" key; line 560 adds one only to what a drain hands back).
Acked(p) ==
    /\ pc[p] = "done"
    /\ response[p].kind = "queued"
    /\ response[p].ret = Absent

\* No handler is running on the key.
AtRest == \A p \in Callers : pc[p] \in {"idle", "done", "crashed", "failed"}

\* How many times action a was applied.
RECURSIVE Times(_, _)
Times(log, a) ==
    IF log = <<>> THEN 0
    ELSE (IF Head(log) = a THEN 1 ELSE 0) + Times(Tail(log), a)

\* The action queues of the requests of q, one after the other.
RECURSIVE ConcatActs(_)
ConcatActs(q) ==
    IF q = <<>> THEN <<>> ELSE Head(q).acts \o ConcatActs(Tail(q))

\* C1: at most one Action Dispatcher pass for the key is in progress at any
\* time.
C1_OnePassAtATime ==
    Cardinality({p \in Callers : pc[p] = "in_pass"}) <= 1

\* C2: every request that was answered with a queued acknowledgment has its
\* action queue applied exactly once: never twice, and once by the time no
\* handler is running on the key any more.
C2_QueuedAppliedExactlyOnce ==
    \A p \in Callers :
        Acked(p) =>
            \A k \in 1..Len(req[p].acts) :
                /\ Times(applied, req[p].acts[k]) <= 1
                /\ AtRest => Times(applied, req[p].acts[k]) = 1

\* C3: a submit on a queue that holds an entry appends the request, starts no
\* dispatcher pass and answers {queued, epoch of this request, original_epoch
\* of the head of the stored queue}; a submit on an empty queue leaves the
\* request as sole entry and goes on to drain.
C3_SubmitContract ==
    [][\A p \in Callers :
          (pc[p] = "idle" /\ pc'[p] # "idle") =>
              IF store # <<>>
              THEN /\ store' = Append(store, req[p])
                   /\ pc'[p] = "done"
                   /\ passes' = passes
                   /\ applied' = applied
                   /\ response'[p].kind = "queued"
                   /\ response'[p].epoch = req[p].epoch
                   /\ response'[p].original_epoch = store[1].epoch
                   /\ response'[p].ret = Absent
              ELSE /\ store' = <<req[p]>>
                   /\ pc'[p] = "drain_read"
                   /\ response'[p] = NoResult]_vars

\* C3 witness: a caller was answered queued, with the epoch of another
\* request as original_epoch, while the admitted caller is in its pass.
C3_Witness ==
    \E p, q \in Callers :
        /\ Acked(p)
        /\ response[p].original_epoch # response[p].epoch
        /\ pc[q] = "in_pass"

\* C4: when drain read several requests, the request it removes from the
\* stored queue after the pass is the request the pass processed.
C4_PopRemovesProcessed ==
    [][\A p \in Callers :
          (pc[p] = "pop_write" /\ pc'[p] = "reread" /\ Len(sortedReqs[p]) > 1) =>
              /\ Head(local[p]) = first[p]
              /\ store' = Tail(local[p])]_vars

\* C5: the fold builds one request with the identity of the first remaining
\* entry and the remaining entries' action queues concatenated in stored
\* order, and leaves the stored queue empty.
C5_FoldMerges ==
    [][\A p \in Callers :
          (pc[p] = "fold" /\ pc'[p] = "resubmit") =>
              /\ merged'[p].id = foldSrc[p][1].id
              /\ merged'[p].epoch = foldSrc[p][1].epoch
              /\ merged'[p].acts = ConcatActs(foldSrc[p])
              /\ store' = <<>>]_vars

\* C5 witness: a fold of two remaining requests is finished.
C5_Witness ==
    \E p \in Callers :
        /\ pc[p] = "resubmit"
        /\ Len(foldSrc[p]) = 2
        /\ foldSrc[p][1].id # foldSrc[p][2].id
        /\ Len(merged[p].acts) = Len(foldSrc[p][1].acts) + Len(foldSrc[p][2].acts)

\* C6: what a drain returns is the first pass's envelope when the queue was
\* empty after the pop, and else an envelope, that of the merge pass, whose
\* return value is the pair [first return, merged return].
C6_ReturnIsEnvelopeOfPairs ==
    [][\A p \in Callers :
          (pc[p] \in {"reread", "resubmit"} /\ pc'[p] = "done") =>
              /\ response'[p].kind = "envelope"
              /\ (stack[p] = <<>> /\ pc[p] = "reread") =>
                     response'[p] = jsonResult[p]
              /\ (stack[p] # <<>> \/ pc[p] = "resubmit") =>
                     response'[p].ret[1] = "pair"]_vars

\* C7: a caller admitted to drain is answered with a ResultEnvelope.
C7_DrainerGetsEnvelope ==
    \A p \in Callers :
        (pc[p] = "done" /\ ~Acked(p)) => response[p].kind = "envelope"

\* --------------------------------------------- Action Dispatcher: claims

\* The positions of the queue whose action_type is none of the three.
UnknownAt ==
    {i \in 1..Len(dreq.action_queue) :
        dreq.action_queue[i].type \notin {"syncInput", "dbInput", "callMethod"}}
FirstUnknown == FirstIndex(UnknownAt)

\* The pass called validate() or render().
Called(what) == \E i \in 1..Len(calls) : calls[i][1] = what

\* The error response that names the first unknown action_type.
UnknownTypeResponse ==
    /\ denv.kind = "error"
    /\ denv.error = <<"Unknown action_type",
                      dreq.action_queue[FirstUnknown].type>>

\* C8 as stated: a request with an action of unknown type at any position
\* is never validated or rendered, yields no ResultEnvelope, and ends with
\* the error response naming that type.
C8_UnknownTypeAlwaysReported ==
    UnknownAt # {} =>
        /\ ~Called("validate") /\ ~Called("render")
        /\ denv.kind # "envelope"
        /\ dpc = "done" => UnknownTypeResponse

\* C8 amended: a request with an action of unknown type at any position is
\* never validated or rendered and yields no ResultEnvelope; its pass ends
\* with the error response naming the first such type, raised at that
\* action, unless hydration or an earlier action has failed the pass before.
C8_UnknownTypeFailsRequest ==
    UnknownAt # {} =>
        /\ ~Called("validate") /\ ~Called("render")
        /\ denv.kind # "envelope"
        /\ idx <= FirstUnknown
        /\ dpc = "done" =>
            \/ failedAt = FirstUnknown /\ UnknownTypeResponse
            \/ failedAt < FirstUnknown /\ denv.kind \in {"error", "fatal"}

\* An unknown type in second position, after an action that went through,
\* has ended the pass.
C8_Witness ==
    /\ dpc = "done"
    /\ FirstUnknown = 2
    /\ failedAt = 2
    /\ UnknownTypeResponse
    /\ dreq.action_queue[1].type = "syncInput"
    /\ inst.cached.attrs.count = Num(2)

\* The queue holds a $reset call.
HasReset ==
    \E i \in 1..Len(dreq.action_queue) :
        /\ dreq.action_queue[i].type = "callMethod"
        /\ dreq.action_queue[i].name = "$reset"

\* C9: the envelope of a request whose queue holds a $reset call, at any
\* position, has no errors, and validate() was not called for it.
C9_ResetEnvelopeHasNoErrors ==
    (HasReset /\ denv.kind = "envelope") =>
        /\ ~Called("validate")
        /\ denv.errors = {}

\* The value is a boolean.
IsBool(v) == v = Num(0) \/ v = Num(1)

\* The params of the $toggle call at hand all name a property that holds a
\* boolean.
TogglesBooleans ==
    \A i \in 1..Len(action.params) :
        /\ GetPropertyValue(inst[cur].attrs, action.params[i]).exc = NoExc
        /\ IsBool(GetPropertyValue(inst[cur].attrs, action.params[i]).val)

\* C10: a $toggle call on properties that hold booleans, top-level or
\* nested, goes through and leaves each of them negated (so that two calls
\* restore the value).
C10_ToggleNegates ==
    [][(Applying /\ action.type = "callMethod" /\ action.name = "$toggle"
        /\ TogglesBooleans) =>
          /\ dpc' = "applying"
          /\ \A i \in 1..Len(action.params) :
               GetPropertyValue(inst'[cur].attrs, action.params[i]).val
                 = PyNot(GetPropertyValue(inst[cur].attrs,
                                          action.params[i]).val)]_vars

\* The dbInput action at hand resolves its model and goes through.
DbInputGoesThrough ==
    Applying /\ action.type = "dbInput" /\ dpc' = "applying"

\* The rows there were are all still there, unchanged but for the row pk.
RowsKeptBut(pk) ==
    \A k \in DOMAIN rows :
        k \in DOMAIN rows' /\ (k # pk => rows'[k] = rows[k])

RECURSIVE Resolves(_, _, _, _)
Resolves(node, parts, i, newKey) ==
    IF i > Len(parts) THEN TRUE
    ELSE IF HasAttr(node, parts[i])
            \/ (IsDict(node) /\ parts[i] \in DOMAIN node[2])
    THEN Resolves(node[2][parts[i]], parts, i + 1, newKey)
    ELSE newKey /\ i = Len(parts) /\ IsDict(node)

\* A valid dot path of the component: attributes and keys all the way.
ValidPath(attrs, property_name) ==
    property_name # NoName /\ Resolves(Comp(attrs), property_name, 1, TRUE)

C13_GetUnresolvedIsAbsent ==
    [][(PathGet /\ pname # NoName
        /\ ~Resolves(Comp(pcomp), pname, 1, FALSE)) =>
          /\ pout'.exc = NoExc
          /\ pout'.val = PyNone]_vars

\* A part before the last names no attribute of the node the parts before
\* it lead to, and that node is no dict.
RECURSIVE StopsAtObject(_, _, _)
StopsAtObject(node, parts, i) ==
    IF i >= Len(parts) THEN FALSE
    ELSE IF HasAttr(node, parts[i])
            \/ (IsDict(node) /\ parts[i] \in DOMAIN node[2])
    THEN StopsAtObject(node[2][parts[i]], parts, i + 1)
    ELSE ~IsDict(node)

\* C14: a set through a property name with an intermediate part that the
\* node reached so far, no dict, does not have changes no attribute and no
\* key of the component graph and raises nothing.
C14_SetThroughMissingIsNoOp ==
    [][(PathSet /\ pname # NoName /\ pvalue # PyNone
        /\ StopsAtObject(Comp(pcomp), pname, 1)) =>
          /\ pcomp' = pcomp
          /\ pout'.exc = NoExc]_vars

\* `data` holds the value under the property name, dict in dict.
HoldsAt(data, property_name, value) ==
    /\ Resolves(Dict(data), property_name, 1, FALSE)
    /\ NodeAt(Dict(data), property_name) = value

\* C15: after a set of a valid dot path that returned without raising,
\* `data` holds the value at the same nested path, also when it did not hold
\* the dicts on the way before.
C15_ShadowHoldsValue ==
    [][(PathSet /\ ValidPath(pcomp, pname) /\ pout'.exc = NoExc) =>
          HoldsAt(pdata', pname, pvalue)]_vars

\* The positions of a log of calls at which the terminal write is made: by
\* the component's setter, or raw, on an attribute or a key.
WritesIn(log) ==
    {i \in 1..Len(log) : log[i][1] \in {"_set_property", "setattr", "setitem"}}
RawWritesIn(log) ==
    {i \in 1..Len(log) : log[i][1] \in {"setattr", "setitem"}}

\* The calls of `what` in a log are one call, with the full property name
\* and the value.
CalledOnce(log, what, property_name, value) ==
    /\ Cardinality({i \in 1..Len(log) : log[i][1] = what}) = 1
    /\ \E i \in 1..Len(log) : log[i] = Call(what, property_name, value)

\* C20: a set that makes its terminal write calls updating(name, value)
\* once before it and updated(name, value) once after it, with the full
\* dotted name; a raw write on an attribute or a key for whose name the
\* component has the hooks updating_<name> and updated_<name> is made right
\* between the two, inside the generic pair.
C20_HooksAroundWrite ==
    [][(PathSet /\ WritesIn(pout'.log) # {}) =>
          /\ CalledOnce(pout'.log, "updating", pname, pvalue)
          /\ CalledOnce(pout'.log, "updated", pname, pvalue)
          /\ \A i \in WritesIn(pout'.log) :
                /\ \E j \in 1..(i - 1) : pout'.log[j][1] = "updating"
                /\ \E j \in (i + 1)..Len(pout'.log) :
                      pout'.log[j][1] = "updated"
          /\ pname \in SpecificHooks =>
                \A i \in RawWritesIn(pout'.log) :
                    /\ i > 2 /\ i + 1 < Len(pout'.log)
                    /\ pout'.log[i - 1] = Call("updating_", pname, pvalue)
                    /\ pout'.log[i + 1] = Call("updated_", pname, pvalue)]_vars

\* ------------------------------------- Action Dispatcher: claims, continued

\* C16: for a request that neither called $reset nor $validate, the names
\* passed to validate() are the top-level keys of the data as posted whose
\* value differs from the snapshot derived after the last action; applying
\* the actions does not alter what the posted values are compared by.
C16_ValidatesChangedKeys ==
    [][(PostProcess /\ ~isReset /\ ~validateAll) =>
          calls'[Len(calls')] =
              Call("validate", <<>>, ModelNamesToValidate(dreq.data, ddata'))]_vars

\* The action at hand is a callMethod that is no assignment and no special
\* command and names nothing the component has.
SpecialNames == {"$refresh", "$reset", "$toggle", "$validate"}
MissingMethodCall(a, attrs) ==
    /\ a.type = "callMethod"
    /\ a.setter = <<>>
    /\ a.name \notin SpecialNames \cup {""}
    /\ a.name \notin Methods
    /\ ~HasAttr(Comp(attrs), a.name)

NewCalls == SubSeq(calls', Len(calls) + 1, Len(calls'))

StageRank ==
    CASE dpc = "idle" -> 0
      [] dpc = "applying" -> 1
      [] dpc = "render" -> 2
      [] dpc = "done" -> 3

\* How often the pass called `what`, and where last.
CallsOf(what) == {i \in 1..Len(calls) : calls[i][1] = what}

\* What holds of a pass at every moment: while actions are applied,
\* hydrate() was called once and nothing was validated or rendered; after
\* validation every action of the queue is behind; an envelope comes with
\* one render() call, the last call of the pass, after the validate() call
\* if there is one; a pass that failed has called neither.
StageOrder ==
    /\ dpc = "applying" =>
          /\ Cardinality(CallsOf("hydrate")) = 1
          /\ idx \in 1..(Len(dreq.action_queue) + 1)
          /\ ~Called("validate") /\ ~Called("render")
    /\ dpc = "render" =>
          /\ idx = Len(dreq.action_queue) + 1
          /\ Cardinality(CallsOf("hydrate")) = 1
          /\ Cardinality(CallsOf("validate")) <= 1
          /\ ~Called("render")
    /\ (dpc = "done" /\ denv.kind = "envelope") =>
          /\ idx = Len(dreq.action_queue) + 1
          /\ CallsOf("render") = {Len(calls)}
          /\ Cardinality(CallsOf("validate")) <= 1
          /\ \A i \in CallsOf("validate") : i = Len(calls) - 1
    /\ (dpc = "done" /\ denv.kind # "envelope") =>
          /\ denv.kind \in {"error", "fatal"}
          /\ ~Called("validate") /\ ~Called("render")
          /\ failedAt = 0 => ~Called("hydrate")

\* C19: a pass moves forward only.  The step that begins it applies the
\* posted data and calls hydrate() once, before the first action; each
\* step of the applying stage applies the action at the next position of
\* the queue; validation comes after the last action and render() after
\* validation, once; a step that fails ends the pass there, with no later
\* stage.
C19_StagesMoveForward ==
    [][/\ StageOrder'
       /\ reqNo' # reqNo =>
             /\ dpc \in {"idle", "done"}
             /\ idx' = 1
             /\ dpc' \in {"applying", "done"}
             /\ dpc' = "applying" =>
                   calls'[Len(calls')] = Call("hydrate", <<>>, PyNone)
       /\ reqNo' = reqNo =>
             /\ StageRank' >= StageRank
             /\ (dpc = "applying" /\ dpc' = "applying") => idx' = idx + 1
             /\ (dpc = "applying" /\ dpc' = "render") =>
                   idx' = idx /\ idx = Len(dreq.action_queue) + 1
             /\ (dpc = "applying" /\ dpc' = "done") =>
                   /\ idx' = idx /\ failedAt' = idx
                   /\ idx <= Len(dreq.action_queue)
                   /\ denv'.kind \in {"error", "fatal"}
             /\ dpc = "render" => dpc' = "done" /\ denv'.kind = "envelope"
             /\ dpc # "done"]_vars

\* A pass of two actions went through all stages: hydrate, the two
\* actions, validate, render.
C19_Witness ==
    /\ dpc = "done"
    /\ denv.kind = "envelope"
    /\ Len(dreq.action_queue) = 2
    /\ dreq.action_queue[1] = Sync(<<"count">>, Num(2))
    /\ dreq.action_queue[2] = CallMethod("increment", <<>>)
    /\ inst.cached.attrs.count = Num(3)
    /\ Called("validate")
    /\ \A h \in CallsOf("hydrate") : \A u \in CallsOf("updating") : h < u

\* ------------------------------------ Request Coordinator: claims, continued

\* C21: when the pass over a request ends in an error that handle_error
\* catches, the request is not in the pending queue afterwards, and so a
\* submit made while no drain is under way is admitted to drain rather than
\* answered with a queued acknowledgment.
C21_FailedRequestLeavesQueue ==
    [][\A p \in Callers :
          /\ (pc[p] = "in_pass" /\ pc'[p] = "failed") =>
                \A i \in 1..Len(store') : store'[i] # first[p]
          /\ (AtRest /\ pc[p] = "idle" /\ pc'[p] # "idle") =>
                pc'[p] = "drain_read"]_vars

\* ------------------------------------- Action Dispatcher: claims, continued

\* C22: a dbInput action with fields writes the declared defaults of the
\* model overridden by its own fields, on a new row or on the row that has
\* the pk, and leaves the declared defaults as they are, whatever dbInput
\* actions came before it, in this request or an earlier one.
C22_WritesDeclaredDefaults ==
    [][(DbInputGoesThrough /\ DOMAIN action.fields # {}) =>
          /\ dbDefaults' = dbDefaults
          /\ dbDefaults = InitialDbDefaults
          /\ IF action.pk = 0
             THEN \E k \in DOMAIN rows' \ DOMAIN rows :
                     rows'[k] = Merge(InitialDbDefaults, action.fields)
             ELSE action.pk \in DOMAIN rows =>
                     rows'[action.pk] =
                         Merge(rows[action.pk],
                               Merge(InitialDbDefaults, action.fields))]_vars

====
